---- MODULE Spec2Model ----
(***************************************************************************)
(* DriveTime: the artifact store (src/lib/store.ts), the HTTP handlers of  *)
(* /api/artifacts and the tool-call facade (add_to_queue), as a state      *)
(* machine over the external table `artifacts`.                            *)
(*                                                                         *)
(* JS strings are sequences of one-character strings.  An optional JS/DB   *)
(* value is a pair <<tag, chars>> with tag "string", "undefined" or "null" *)
(* so that undefined, null and the empty string stay distinct.             *)
(***************************************************************************)
EXTENDS Integers, Sequences, FiniteSets, TLC

\* ---------------------------------------------------------------- bounds
\* number of uuids the run may generate
MaxIds == 2
\* last clock reading (the clock is in ticks)
MaxTime == 2
\* clock ticks per calendar day
TicksPerDay == 2
\* number of requests that may be in flight at once
NumProcs == 2
\* number of updateArtifactStatus calls the run may start
MaxCalls == 2
MaxAwaiting == 1

VARIABLES
    store,      \* the external table: a set of rows (snake_case columns)
    now,        \* the wall clock read by new Date()
    nextId,     \* number of uuids generated so far
    calls,      \* per request slot: the updateArtifactStatus call in flight
    created,    \* history: id -> the creation request and the artifact it built
    started,    \* history: number of updateArtifactStatus calls started
    resp,       \* the answer of the request that finished last: its
                \* operation and HTTP status; for PATCH also its target and the
                \* columns it wrote, for getDayGroups also its result
    player      \* the state of the drive page open in one browser tab

vars == <<store, now, nextId, calls, created, started, resp, player>>

Procs == 1..NumProcs
Ids == 1..MaxIds

\* ---------------------------------------------------------------- values
Undefined == <<"undefined", <<>>>>
Null == <<"null", <<>>>>
Str(s) == <<"string", s>>

IsStr(v) == v[1] = "string"
\* JS truthiness of an optional string: undefined, null and "" are falsy
Truthy(v) == IsStr(v) /\ v[2] # <<>>
\* a ?? b
Coalesce(a, b) == IF a[1] \in {"undefined", "null"} THEN b ELSE a

DEMO_USER_ID == "demo-user"

ArtifactType == {"idea", "article", "question", "screenshot", "note"}
ArtifactStatus == {"pending", "processing", "ready", "playing", "completed"}

\* ---------------------------------------------------------------- strings
Min(a, b) == IF a < b THEN a ELSE b

\* String.prototype.startsWith
StartsWith(s, prefix) ==
    /\ Len(s) >= Len(prefix)
    /\ SubSeq(s, 1, Len(prefix)) = prefix

\* String.prototype.slice(0, n)
Slice0(s, n) == SubSeq(s, 1, Min(n, Len(s)))

RECURSIVE IndexFrom(_, _, _)
IndexFrom(s, c, i) ==
    IF i > Len(s) THEN 0
    ELSE IF s[i] = c THEN i
    ELSE IndexFrom(s, c, i + 1)

\* String.prototype.split(sep) for a one-character separator
RECURSIVE Split(_, _)
Split(s, sep) ==
    LET i == IndexFrom(s, sep, 1)
    IN  IF i = 0 THEN <<s>>
        ELSE <<SubSeq(s, 1, i - 1)>> \o Split(SubSeq(s, i + 1, Len(s)), sep)

Alphabet == <<"-", "0", "1", "2", "3", "4", "5", "6", "7", "8", "9", ":", "T", "Z">>
CharCode(c) == CHOOSE i \in 1..Len(Alphabet) : Alphabet[i] = c

\* a.localeCompare(b) on strings over Alphabet: -1, 0 or 1
RECURSIVE LocaleCompare(_, _)
LocaleCompare(a, b) ==
    IF a = <<>> /\ b = <<>> THEN 0
    ELSE IF a = <<>> THEN -1
    ELSE IF b = <<>> THEN 1
    ELSE IF CharCode(Head(a)) < CharCode(Head(b)) THEN -1
    ELSE IF CharCode(Head(a)) > CharCode(Head(b)) THEN 1
    ELSE LocaleCompare(Tail(a), Tail(b))

\* ---------------------------------------------------------------- clock
Digit(n) == Alphabet[n + 2]
TwoDigits(n) == <<Digit(n \div 10), Digit(n % 10)>>

\* Date.prototype.toISOString of clock reading t: "DD" "T" "HH" "Z"
\* (the day number stands for YYYY-MM-DD, the tick in the day for the time)
toISOString(t) ==
    TwoDigits(t \div TicksPerDay) \o <<"T">> \o TwoDigits(t % TicksPerDay) \o <<"Z">>

\* split('T')[0] of an ISO string
DatePart(iso) == Split(iso, "T")[1]

\* ---------------------------------------------------------------- rows
\* rowToArtifact: snake_case row -> camelCase Artifact, null -> undefined
rowToArtifact(row) ==
    [id |-> row.id,
     userId |-> row.user_id,
     type |-> row.type,
     title |-> row.title,
     rawContent |-> row.raw_content,
     summary |-> Coalesce(row.summary, Undefined),
     fullAudioText |-> Coalesce(row.full_audio_text, Undefined),
     sourceUrl |-> Coalesce(row.source_url, Undefined),
     imageData |-> Coalesce(row.image_data, Undefined),
     status |-> row.status,
     createdAt |-> row.created_at,
     playedAt |-> Coalesce(row.played_at, Undefined),
     completedAt |-> Coalesce(row.completed_at, Undefined),
     tags |-> row.tags,
     dayBucket |-> row.day_bucket]

\* artifactToRow: camelCase Artifact -> snake_case row, undefined -> null
artifactToRow(artifact) ==
    [id |-> artifact.id,
     user_id |-> artifact.userId,
     type |-> artifact.type,
     title |-> artifact.title,
     raw_content |-> artifact.rawContent,
     summary |-> Coalesce(artifact.summary, Null),
     full_audio_text |-> Coalesce(artifact.fullAudioText, Null),
     source_url |-> Coalesce(artifact.sourceUrl, Null),
     image_data |-> Coalesce(artifact.imageData, Null),
     status |-> artifact.status,
     created_at |-> artifact.createdAt,
     played_at |-> Coalesce(artifact.playedAt, Null),
     completed_at |-> Coalesce(artifact.completedAt, Null),
     tags |-> artifact.tags,
     day_bucket |-> artifact.dayBucket]

\* ---------------------------------------------------------------- table
\* select * where id = ... (the matching rows)
RowsById(tbl, id) == {r \in tbl : r.id = id}

\* upsert(row, {onConflict: 'id'}): the row replaces every row of its id
Upsert(tbl, row) == {r \in tbl : r.id # row.id} \cup {row}

\* faulty variant: the columns the update does not name are cleared
ApplyUpdatesClearingRest(row, updates) ==
    [c \in DOMAIN row |->
        IF c \in DOMAIN updates THEN updates[c]
        ELSE IF c \in {"played_at", "completed_at", "summary"} THEN Null
        ELSE row[c]]

\* update(updates).eq('id', id): the named columns of the matching rows
ApplyUpdates(row, updates) ==
    [c \in DOMAIN row |-> IF c \in DOMAIN updates THEN updates[c] ELSE row[c]]

\* faulty variant: the update is not restricted to the row of the id
UpdateWhereIdEveryRow(tbl, id, updates) ==
    {ApplyUpdates(r, updates) : r \in tbl}

UpdateWhereId(tbl, id, updates) ==
    {IF r.id = id THEN ApplyUpdates(r, updates) ELSE r : r \in tbl}

\* delete().eq('id', id)
DeleteWhereId(tbl, id) == {r \in tbl : r.id # id}

\* faulty variant: ascending order
OrderByCreatedAsc(rows) ==
    LET n == Cardinality(rows)
    IN  {f \in [1..n -> rows] :
            /\ \A i, j \in 1..n : i # j => f[i] # f[j]
            /\ \A i \in 1..n : \A j \in 1..n :
                   i < j => LocaleCompare(f[i].created_at, f[j].created_at) <= 0}

\* order('created_at', {ascending: false}): every ordering of the rows the
\* database may return (rows of equal created_at come in any order)
OrderByCreatedDesc(rows) ==
    LET n == Cardinality(rows)
    IN  {f \in [1..n -> rows] :
            /\ \A i, j \in 1..n : i # j => f[i] # f[j]
            /\ \A i \in 1..n : \A j \in 1..n :
                   i < j => LocaleCompare(f[i].created_at, f[j].created_at) >= 0}

Map(f(_), s) == [i \in 1..Len(s) |-> f(s[i])]

\* ---------------------------------------------------------------- store.ts
\* getArtifact: the artifact, or Undefined-tagged absence when no single row
Absent == [absent |-> TRUE]
getArtifact(tbl, id) ==
    LET rs == RowsById(tbl, id)
    IN  IF Cardinality(rs) # 1 THEN Absent
        ELSE rowToArtifact(CHOOSE r \in rs : TRUE)

\* getAllArtifacts: the possible results
getAllArtifacts(tbl, userId) ==
    {Map(rowToArtifact, f) : f \in OrderByCreatedDesc({r \in tbl : r.user_id = userId})}

\* updateArtifactStatus, lines 136-151: the column updates, given whether
\* each timestamp is to be stamped
UpdatesOf(stampPlayed, stampCompleted, status, additionalFields, t) ==
    LET has(k) == k \in DOMAIN additionalFields
        cols == {"status"}
                \cup (IF stampPlayed THEN {"played_at"} ELSE {})
                \cup (IF stampCompleted THEN {"completed_at"} ELSE {})
                \cup (IF has("summary") THEN {"summary"} ELSE {})
                \cup (IF has("fullAudioText") THEN {"full_audio_text"} ELSE {})
                \cup (IF has("title") THEN {"title"} ELSE {})
                \cup (IF has("tags") THEN {"tags"} ELSE {})
    IN  [c \in cols |->
            CASE c = "status" -> status
              [] c = "played_at" -> Str(toISOString(t))
              [] c = "completed_at" -> Str(toISOString(t))
              [] c = "summary" -> additionalFields["summary"]
              [] c = "full_audio_text" -> additionalFields["fullAudioText"]
              [] c = "title" -> additionalFields["title"]
              [] c = "tags" -> additionalFields["tags"]]

\* faulty variant: playing never stamps played_at
BuildUpdatesPlayingUnstamped(current, status, additionalFields, t) ==
    UpdatesOf(FALSE,
              status = "completed" /\ ~Truthy(current.completedAt),
              status, additionalFields, t)

\* faulty variant: playing stamps played_at whether or not it was set
BuildUpdatesRestampPlayed(current, status, additionalFields, t) ==
    UpdatesOf(status = "playing",
              status = "completed" /\ ~Truthy(current.completedAt),
              status, additionalFields, t)

\* faulty variant: completed stamps completed_at whether or not it was set
BuildUpdatesRestampCompleted(current, status, additionalFields, t) ==
    UpdatesOf(status = "playing" /\ ~Truthy(current.playedAt),
              status = "completed",
              status, additionalFields, t)

\* faulty variant: a dayBucket in the patch is written too
BuildUpdatesCopyDay(current, status, additionalFields, t) ==
    UpdatesOf(status = "playing" /\ ~Truthy(current.playedAt),
              status = "completed" /\ ~Truthy(current.completedAt),
              status, additionalFields, t)
    @@ (IF "dayBucket" \in DOMAIN additionalFields
        THEN "day_bucket" :> additionalFields["dayBucket"]
        ELSE <<>>)

\* faulty variant: a completed artifact stays completed
BuildUpdatesCompletedAbsorbing(current, status, additionalFields, t) ==
    UpdatesOf(status = "playing" /\ ~Truthy(current.playedAt),
              status = "completed" /\ ~Truthy(current.completedAt),
              IF current.status = "completed" THEN "completed" ELSE status,
              additionalFields, t)

\* updateArtifactStatus, lines 136-151: the updates built from the artifact
\* read, the target status, the patch and the clock
BuildUpdates(current, status, additionalFields, t) ==
    UpdatesOf(status = "playing" /\ ~Truthy(current.playedAt),
              status = "completed" /\ ~Truthy(current.completedAt),
              status, additionalFields, t)

\* ---------------------------------------------------------------- getDayGroups
\* lines 175-181: bucket by dayBucket; a Map keeps keys in insertion order
RECURSIVE GroupByDay(_, _, _)
GroupByDay(arts, keys, groups) ==
    \* keys: the dates in insertion order; groups: date -> artifacts
    IF arts = <<>> THEN <<keys, groups>>
    ELSE LET a == Head(arts)
             d == a.dayBucket
         IN  IF d \in DOMAIN groups
             THEN GroupByDay(Tail(arts), keys,
                             [groups EXCEPT ![d] = Append(groups[d], a)])
             ELSE GroupByDay(Tail(arts), Append(keys, d),
                             groups @@ (d :> <<a>>))

\* arts.filter(pred).length
CountWhere(arts, pred(_)) == Len(SelectSeq(arts, pred))

\* faulty variant: stats.pending counts status pending only
DayGroupOfPendingOnly(date, arts) ==
    LET isPending(a) == a.status = "pending"
        isReady(a) == a.status = "ready"
        isCompleted(a) == a.status = "completed"
    IN  [date |-> date,
         artifacts |-> arts,
         stats |-> [total |-> Len(arts),
                    pending |-> CountWhere(arts, isPending),
                    ready |-> CountWhere(arts, isReady),
                    completed |-> CountWhere(arts, isCompleted)]]

\* lines 183-195: one DayGroup per bucket
DayGroupOf(date, arts) ==
    LET isPending(a) == a.status = "pending" \/ a.status = "processing"
        isReady(a) == a.status = "ready"
        isCompleted(a) == a.status = "completed"
    IN  [date |-> date,
         artifacts |-> arts,
         stats |-> [total |-> Len(arts),
                    pending |-> CountWhere(arts, isPending),
                    ready |-> CountWhere(arts, isReady),
                    completed |-> CountWhere(arts, isCompleted)]]

\* faulty variant: ascending dates
CompareGroupsAscending(a, b) == LocaleCompare(a.date, b.date)

\* the comparator of line 197
CompareGroups(a, b) == LocaleCompare(b.date, a.date)

\* Array.prototype.sort with cmp: a stable insertion sort
RECURSIVE InsertSorted(_, _)
InsertSorted(sorted, g) ==
    IF sorted = <<>> THEN <<g>>
    ELSE IF CompareGroups(sorted[Len(sorted)], g) <= 0 THEN Append(sorted, g)
    ELSE Append(InsertSorted(SubSeq(sorted, 1, Len(sorted) - 1), g), sorted[Len(sorted)])

RECURSIVE SortGroups(_, _)
SortGroups(gs, acc) ==
    IF gs = <<>> THEN acc ELSE SortGroups(Tail(gs), InsertSorted(acc, Head(gs)))

\* faulty variant: each group lists its artifacts oldest first
DayGroupsOfOldestFirst(userArtifacts) ==
    LET kg == GroupByDay(userArtifacts, <<>>, <<>>)
        keys == kg[1]
        groups == kg[2]
        rev(l) == [i \in 1..Len(l) |-> l[Len(l) + 1 - i]]
        dayGroups == [i \in 1..Len(keys) |-> DayGroupOf(keys[i], rev(groups[keys[i]]))]
    IN  SortGroups(dayGroups, <<>>)

\* getDayGroups on the result of its getAllArtifacts call
DayGroupsOf(userArtifacts) ==
    LET kg == GroupByDay(userArtifacts, <<>>, <<>>)
        keys == kg[1]
        groups == kg[2]
        dayGroups == [i \in 1..Len(keys) |-> DayGroupOf(keys[i], groups[keys[i]])]
    IN  SortGroups(dayGroups, <<>>)

\* ---------------------------------------------------------------- inputs
PlainText == <<"h", "i">>
HttpUrl == <<"h", "t", "t", "p", ":", "/", "/", "x">>
HttpsUrl == <<"h", "t", "t", "p", "s", ":", "/", "/", "x">>
ImageB64 == <<"i", "m", "g">>

\* the longest title prefix kept by the creation handlers
TitleMax == 100

\* request bodies of POST /api/artifacts: {type, content, sourceUrl?, imageData?, tags?}:
\* every combination of sourceUrl and imageData absent, empty and non-empty
\* under one requested type, and bodies of a second type with and without
\* content
PostBodies ==
    [type : {"note"},
     content : {Str(PlainText), Str(HttpUrl)},
     sourceUrl : {Undefined, Str(<<>>), Str(HttpUrl)},
     imageData : {Undefined, Str(<<>>), Str(ImageB64)},
     tags : {Undefined}]
    \cup
    [type : {"idea"},
     content : {Undefined, Str(PlainText)},
     sourceUrl : {Undefined},
     imageData : {Undefined},
     tags : {Undefined}]

\* arguments of the add_to_queue tool: {type, content}
QueueArgs ==
    [type : {"idea", "note"},
     content : {Str(PlainText), Str(HttpUrl), Str(HttpsUrl)}]

\* the fields of a PATCH body besides status
Patches ==
    { <<>>,
      ("summary" :> Str(<<"s">>)) @@ ("title" :> <<"t">>),
      ("dayBucket" :> <<"9", "9">>) @@ ("createdAt" :> <<"9", "9", "T", "0", "0", "Z">>) }

\* a PATCH body that names none of summary, fullAudioText, title, tags
NoFieldPatches ==
    {af \in Patches : DOMAIN af \cap {"summary", "fullAudioText", "title", "tags"} = {}}

\* ---------------------------------------------------------------- creation
\* uuidv4(): a value never returned before (n values returned so far)
uuidv4(n) == n + 1

\* content.slice(0, 100) + (content.length > 100 ? '...' : '')
TitleOf(content) ==
    Slice0(content, TitleMax) \o (IF Len(content) > TitleMax THEN <<".", ".", ".">> ELSE <<>>)

\* the status of line 57 (and of add_to_queue's literal)
InitialStatusReady == "ready"
InitialStatus == "pending"

\* faulty variant: the source URL decides before the image does
PostTypeUrlFirst(body) ==
    IF Truthy(body.sourceUrl) THEN "article"
    ELSE IF Truthy(body.imageData) THEN "screenshot"
    ELSE body.type

\* faulty variant: the requested type is kept when a source URL is given
PostTypeNoArticle(body) ==
    IF Truthy(body.imageData) THEN "screenshot" ELSE body.type

\* line 52: imageData ? 'screenshot' : sourceUrl ? 'article' : type
PostType(body) ==
    IF Truthy(body.imageData) THEN "screenshot"
    ELSE IF Truthy(body.sourceUrl) THEN "article"
    ELSE body.type

\* POST /api/artifacts, lines 43-61: the artifact built from the body
PostArtifactOf(body, id, t) ==
    [id |-> id,
     userId |-> DEMO_USER_ID,
     type |-> PostType(body),
     title |-> TitleOf(body.content[2]),
     rawContent |-> body.content[2],
     summary |-> Undefined,
     fullAudioText |-> Undefined,
     sourceUrl |-> body.sourceUrl,
     imageData |-> body.imageData,
     status |-> InitialStatus,
     createdAt |-> toISOString(t),
     playedAt |-> Undefined,
     completedAt |-> Undefined,
     tags |-> IF body.tags = Undefined THEN <<>> ELSE body.tags[2],
     dayBucket |-> DatePart(toISOString(t))]

\* faulty variant: only http:// counts as a URL
QueueIsUrlHttpOnly(content) ==
    StartsWith(content, <<"h", "t", "t", "p", ":", "/", "/">>)

\* add_to_queue: content.startsWith('http://') || content.startsWith('https://')
QueueIsUrl(content) ==
    \/ StartsWith(content, <<"h", "t", "t", "p", ":", "/", "/">>)
    \/ StartsWith(content, <<"h", "t", "t", "p", "s", ":", "/", "/">>)

\* add_to_queue: the artifact built from the tool arguments
QueueArtifactOf(args, id, t) ==
    LET content == args.content[2]
        isUrl == QueueIsUrl(content)
    IN  [id |-> id,
         userId |-> DEMO_USER_ID,
         type |-> IF isUrl THEN "article" ELSE args.type,
         title |-> TitleOf(content),
         rawContent |-> content,
         summary |-> Undefined,
         fullAudioText |-> Undefined,
         sourceUrl |-> IF isUrl THEN Str(content) ELSE Undefined,
         imageData |-> Undefined,
         status |-> InitialStatus,
         createdAt |-> toISOString(t),
         playedAt |-> Undefined,
         completedAt |-> Undefined,
         tags |-> <<>>,
         dayBucket |-> DatePart(toISOString(t))]

\* saveArtifact
saveArtifact(tbl, artifact) == Upsert(tbl, artifactToRow(artifact))

\* ---------------------------------------------------------------- state machine
Idle == [pc |-> "idle"]

\* DrivePage, lines 137-139: the useState initial values; src: whether the
\* audio element holds a source; awaiting: the currentIndex captured by
\* each handleNext whose PATCH has not returned yet
PlayerInit ==
    [episodes |-> <<>>, currentIndex |-> 0, isPlaying |-> FALSE, src |-> FALSE,
     awaiting |-> <<>>]

Init ==
    /\ store = {}
    /\ now = 0
    /\ nextId = 0
    /\ calls = [p \in Procs |-> Idle]
    /\ created = <<>>
    /\ started = 0
    /\ resp = [op |-> "none"]
    /\ player = PlayerInit

\* the wall clock advances
Tick ==
    /\ now < MaxTime
    /\ now' = now + 1
    /\ UNCHANGED <<store, nextId, calls, created, started, resp, player>>

\* POST /api/artifacts
PostArtifacts(body) ==
    IF ~IsStr(body.content)
    THEN \* content.slice throws: caught, answered 500
         /\ resp' = [op |-> "POST", code |-> 500]
         /\ UNCHANGED <<store, now, nextId, calls, created, started, player>>
    ELSE /\ nextId < MaxIds
         /\ LET artifact == PostArtifactOf(body, uuidv4(nextId), now)
            IN  /\ store' = saveArtifact(store, artifact)
                /\ created' = created @@
                       (artifact.id :> [via |-> "POST", request |-> body, artifact |-> artifact])
                /\ resp' = [op |-> "POST", code |-> 200]
         /\ nextId' = nextId + 1
         /\ UNCHANGED <<now, calls, started, player>>

\* tools/call add_to_queue
AddToQueue(args) ==
    /\ nextId < MaxIds
    /\ LET artifact == QueueArtifactOf(args, uuidv4(nextId), now)
       IN  /\ store' = saveArtifact(store, artifact)
           /\ created' = created @@
                  (artifact.id :> [via |-> "add_to_queue", request |-> args, artifact |-> artifact])
           /\ resp' = [op |-> "add_to_queue", code |-> 200]
    /\ nextId' = nextId + 1
    /\ UNCHANGED <<now, calls, started, player>>

\* faulty variant: no null check after the read; the missing artifact is
\* dereferenced, which throws and is answered 500
UpdateReadThrowsOnAbsent(p, id, status, additionalFields) ==
    /\ calls[p].pc = "idle"
    /\ started < MaxCalls
    /\ started' = started + 1
    /\ LET current == getArtifact(store, id)
       IN  IF current = Absent
           THEN /\ resp' = [op |-> "PATCH", code |-> 500, id |-> id, status |-> status,
                            columns |-> {}]
                /\ UNCHANGED calls
           ELSE /\ calls' = [calls EXCEPT ![p] =
                                [pc |-> "write", id |-> id, status |-> status,
                                 updates |-> BuildUpdates(current, status, additionalFields, now)]]
                /\ UNCHANGED resp
    /\ UNCHANGED <<store, now, nextId, created, player>>

\* updateArtifactStatus, lines 133-151: the read of the current artifact and
\* the updates built from it (PATCH /api/artifacts/{id})
UpdateRead(p, id, status, additionalFields) ==
    /\ calls[p].pc = "idle"
    /\ started < MaxCalls
    /\ started' = started + 1
    /\ LET current == getArtifact(store, id)
       IN  IF current = Absent
           THEN \* return null: answered 404
                /\ resp' = [op |-> "PATCH", code |-> 404, id |-> id, status |-> status,
                            columns |-> {}]
                /\ UNCHANGED calls
           ELSE /\ calls' = [calls EXCEPT ![p] =
                                [pc |-> "write", id |-> id, status |-> status,
                                 updates |-> BuildUpdates(current, status, additionalFields, now)]]
                /\ UNCHANGED resp
    /\ UNCHANGED <<store, now, nextId, created, player>>

\* updateArtifactStatus, lines 153-161: the update of the row
UpdateWrite(p) ==
    /\ calls[p].pc = "write"
    /\ LET id == calls[p].id
           found == Cardinality(RowsById(store, id)) = 1
           code == IF found THEN 200 ELSE 404
       IN  /\ IF found
              THEN store' = UpdateWhereId(store, id, calls[p].updates)
              ELSE \* .single() finds no row: return null, answered 404
                   UNCHANGED store
           /\ resp' = [op |-> "PATCH", code |-> code, id |-> id, status |-> calls[p].status,
                       columns |-> IF found THEN DOMAIN calls[p].updates ELSE {}]
    /\ calls' = [calls EXCEPT ![p] = Idle]
    /\ UNCHANGED <<now, nextId, created, started, player>>

\* updateArtifactStatus called only after every earlier call has returned
NoCallInFlight == \A q \in Procs : calls[q].pc = "idle"

UpdateReadSeq(p, id, status, additionalFields) ==
    /\ NoCallInFlight
    /\ UpdateRead(p, id, status, additionalFields)

\* DELETE /api/artifacts/{id}: deleteArtifact returns !error
DeleteArtifact(id) ==
    /\ store' = DeleteWhereId(store, id)
    /\ resp' = [op |-> "DELETE", code |-> 200]
    /\ UNCHANGED <<now, nextId, calls, created, started, player>>

\* getDayGroups(DEMO_USER_ID)
GetDayGroups ==
    /\ \E userArtifacts \in getAllArtifacts(store, DEMO_USER_ID) :
           resp' = [op |-> "getDayGroups", code |-> 200,
                    artifacts |-> userArtifacts,
                    body |-> DayGroupsOf(userArtifacts)]
    /\ UNCHANGED <<store, now, nextId, calls, created, started, player>>

\* the creation requests of the lifecycle specification
LifeBodies ==
    {b \in PostBodies : b.type = "note" /\ b.content = Str(PlainText)
                         /\ b.sourceUrl = Undefined /\ b.imageData = Undefined}
LifeArgs == {a \in QueueArgs : a.type = "idea" /\ a.content = Str(HttpUrl)}

\* every request of the system, any interleaving of the in-flight calls
Next ==
    \/ Tick
    \/ \E body \in LifeBodies : PostArtifacts(body)
    \/ \E args \in LifeArgs : AddToQueue(args)
    \/ \E p \in Procs, id \in Ids, status \in ArtifactStatus, af \in NoFieldPatches :
           UpdateRead(p, id, status, af)
    \/ \E p \in Procs : UpdateWrite(p)
    \/ \E id \in Ids : DeleteArtifact(id)

Spec == Init /\ [][Next]_vars

\* the same requests when no two updateArtifactStatus calls overlap: a call
\* starts only after every earlier call has returned
NextSeq ==
    \/ Tick
    \/ \E body \in LifeBodies : PostArtifacts(body)
    \/ \E args \in LifeArgs : AddToQueue(args)
    \/ \E p \in Procs, id \in Ids, status \in ArtifactStatus, af \in NoFieldPatches :
           UpdateReadSeq(p, id, status, af)
    \/ \E p \in Procs : UpdateWrite(p)
    \/ \E id \in Ids : DeleteArtifact(id)
    \/ GetDayGroups

SpecSeq == Init /\ [][NextSeq]_vars

\* the creation requests over all their bodies and arguments
NextCreate ==
    \/ Tick
    \/ \E body \in PostBodies : PostArtifacts(body)
    \/ \E args \in QueueArgs : AddToQueue(args)

SpecCreate == Init /\ [][NextCreate]_vars

\* ---------------------------------------------------------------- store.ts, the other calls
\* whether each call a request makes to the external store is answered
\* (TRUE) or reported back as an error (FALSE), by position of the call
DbAnswers == [1..3 -> BOOLEAN]
DbUp == [k \in 1..3 |-> TRUE]
\* the answers to a request that makes one store call, or at most two
DbAnswersOfOne == {db \in DbAnswers : db[2] /\ db[3]}
DbAnswersOfTwo == {db \in DbAnswers : db[3]}

\* getArtifact when the store may report an error: line 72 returns null
getArtifactOr(tbl, id, ok) == IF ok THEN getArtifact(tbl, id) ELSE Absent

\* getArtifactsByDay: the possible results
getArtifactsByDay(tbl, userId, date) ==
    {Map(rowToArtifact, f) :
        f \in OrderByCreatedDesc({r \in tbl : r.user_id = userId /\ r.day_bucket = date})}

\* getArtifactsByStatus: the possible results
getArtifactsByStatus(tbl, userId, status) ==
    {Map(rowToArtifact, f) :
        f \in OrderByCreatedDesc({r \in tbl : r.user_id = userId /\ r.status = status})}

\* faulty variant: the pending queue is the artifacts in status pending
getPendingArtifactsStatusPending(tbl, userId) == getArtifactsByStatus(tbl, userId, "pending")

\* getPendingArtifacts
getPendingArtifacts(tbl, userId) == getArtifactsByStatus(tbl, userId, "ready")

\* lines 83, 95, 107: a list read returns [] when the store reports an error
ListOr(results, ok) == IF ok THEN results ELSE {<<>>}

\* saveArtifact when the store may report an error: lines 121-124 throw it
saveArtifactOr(tbl, artifact, ok) ==
    [threw |-> ~ok,
     tbl |-> IF ok THEN saveArtifact(tbl, artifact) ELSE tbl]

\* deleteArtifact when the store may report an error: line 170 returns !error
deleteArtifactOr(tbl, id, ok) ==
    [threw |-> FALSE,
     returned |-> ok,
     tbl |-> IF ok THEN DeleteWhereId(tbl, id) ELSE tbl]

\* faulty variant: the update is sent without reading the artifact first
updateArtifactStatusBlindWrite(tbl, id, status, additionalFields, t, okRead, okWrite) ==
    IF ~okWrite \/ getArtifact(tbl, id) = Absent
    THEN [threw |-> FALSE, returned |-> Absent, tbl |-> tbl, dbCalls |-> <<"update">>]
    ELSE LET after == UpdateWhereId(tbl, id,
                          UpdatesOf(status = "playing", status = "completed",
                                    status, additionalFields, t))
         IN  [threw |-> FALSE, returned |-> getArtifact(after, id), tbl |-> after,
              dbCalls |-> <<"update">>]

\* faulty variant: the update is built but never sent
updateArtifactStatusUnsent(tbl, id, status, additionalFields, t, okRead, okWrite) ==
    LET current == getArtifactOr(tbl, id, okRead)
    IN  [threw |-> FALSE, returned |-> current, tbl |-> tbl, dbCalls |-> <<"select">>]

\* updateArtifactStatus run with no other request between its read and its
\* write: what it returns, the table it leaves and the store calls it made
updateArtifactStatus(tbl, id, status, additionalFields, t, okRead, okWrite) ==
    LET current == getArtifactOr(tbl, id, okRead)
    IN  IF current = Absent
        THEN [threw |-> FALSE, returned |-> Absent, tbl |-> tbl, dbCalls |-> <<"select">>]
        ELSE IF ~okWrite
        THEN [threw |-> FALSE, returned |-> Absent, tbl |-> tbl,
              dbCalls |-> <<"select", "update">>]
        ELSE LET after == UpdateWhereId(tbl, id,
                              BuildUpdates(current, status, additionalFields, t))
             IN  [threw |-> FALSE, returned |-> getArtifact(after, id), tbl |-> after,
                  dbCalls |-> <<"select", "update">>]

\* ---------------------------------------------------------------- the tool-call endpoint
\* JSON-RPC error codes of the endpoint
MethodNotFound == -32601
InvalidParams == -32602
InternalError == -32603

\* ids of JSON-RPC requests
RpcIds == {Str(<<"a">>), Str(<<"b">>)}

\* NextResponse.json(response): HTTP 200 with the envelope {jsonrpc, id,
\* result} (error 0: no error member); tool and dbCalls record which tool
\* ran and the store calls it made
JsonRpcResult(id, tool, result, dbCalls) ==
    [op |-> "tools/call", code |-> 200, rpcId |-> id, error |-> 0,
     tool |-> tool, result |-> result, dbCalls |-> dbCalls]

\* the envelope {jsonrpc, id, error: {code}} of the default method case and
\* of resources/read
JsonRpcError(id, code) ==
    [op |-> "tools/call", code |-> 200, rpcId |-> id, error |-> code,
     tool |-> "none", result |-> [kind |-> "none"], dbCalls |-> <<>>]

\* the catch block: {jsonrpc, id: null, error: {code: -32603}}, HTTP 200
JsonRpcFault(tool, dbCalls) ==
    [op |-> "tools/call", code |-> 200, rpcId |-> Null, error |-> InternalError,
     tool |-> tool, result |-> [kind |-> "none"], dbCalls |-> dbCalls]

\* faulty variant: the missing artifact is dereferenced, which throws
EpisodeNotFoundThrows(rpcId, tool, dbCalls) == JsonRpcFault(tool, dbCalls)

\* the answer of get_episode_content and mark_episode_complete when there
\* is no artifact: structuredContent {error: 'Episode not found'}
EpisodeNotFound(rpcId, tool, dbCalls) ==
    JsonRpcResult(rpcId, tool, [error |-> "Episode not found"], dbCalls)

\* the ids of a list of artifacts, in order (episodes: artifacts.map(...))
EpisodeIds(artifacts) == [i \in 1..Len(artifacts) |-> artifacts[i].id]

\* tools/call show_drivetime
ShowDrivetime(rpcId, db) ==
    /\ \E artifacts \in ListOr(getPendingArtifacts(store, DEMO_USER_ID), db[1]) :
           resp' = JsonRpcResult(rpcId, "show_drivetime",
                       [episodeCount |-> Len(artifacts), episodes |-> EpisodeIds(artifacts)],
                       <<"select">>)
    /\ UNCHANGED <<store, now, nextId, calls, created, started, player>>

\* values of the status argument of get_todays_episodes
StatusPending == <<"p", "e", "n", "d", "i", "n", "g">>
StatusCompleted == <<"c", "o", "m", "p", "l", "e", "t", "e", "d">>
StatusAll == <<"a", "l", "l">>
EpisodesArgs == [status : {Undefined, Str(<<>>), Str(StatusPending), Str(StatusCompleted), Str(StatusAll)}]

\* tools/call get_todays_episodes
GetTodaysEpisodes(rpcId, args, db) ==
    /\ LET status == IF Truthy(args.status) THEN args.status[2] ELSE StatusPending
           isCompleted(a) == a.status = "completed"
           listed == IF status = StatusPending
                     THEN ListOr(getPendingArtifacts(store, DEMO_USER_ID), db[1])
                     ELSE IF status = StatusCompleted
                     THEN {SelectSeq(all, isCompleted) :
                              all \in ListOr(getAllArtifacts(store, DEMO_USER_ID), db[1])}
                     ELSE ListOr(getAllArtifacts(store, DEMO_USER_ID), db[1])
       IN  \E artifacts \in listed :
               resp' = JsonRpcResult(rpcId, "get_todays_episodes",
                           [count |-> Len(artifacts), episodes |-> EpisodeIds(artifacts),
                            status |-> args.status],
                           <<"select">>)
    /\ UNCHANGED <<store, now, nextId, calls, created, started, player>>

\* values of the mode argument of get_episode_content
ModeSummary == <<"s", "u", "m", "m", "a", "r", "y">>
ModeFull == <<"f", "u", "l", "l">>
ContentArgs == [episode_id : Ids, mode : {Undefined, Str(ModeFull)}]

\* tools/call get_episode_content; llmOk: whether expandForAudio, when it
\* is called, returns (TRUE) or throws (FALSE)
GetEpisodeContent(rpcId, args, db, llmOk) ==
    /\ NoCallInFlight
    /\ LET episodeId == args.episode_id
           artifact == getArtifactOr(store, episodeId, db[1])
       IN  IF artifact = Absent
           THEN /\ resp' = EpisodeNotFound(rpcId, "get_episode_content", <<"select">>)
                /\ UNCHANGED <<store, started>>
           ELSE LET u == updateArtifactStatus(store, episodeId, "playing", <<>>, now,
                                              db[2], db[3])
                    mode == IF Truthy(args.mode) THEN args.mode[2] ELSE ModeSummary
                    expand == mode = ModeFull /\ ~Truthy(artifact.fullAudioText)
                IN  /\ started < MaxCalls
                    /\ started' = started + 1
                    /\ store' = u.tbl
                    /\ resp' = IF expand /\ ~llmOk
                               THEN JsonRpcFault("get_episode_content",
                                                 <<"select">> \o u.dbCalls)
                               ELSE JsonRpcResult(rpcId, "get_episode_content",
                                        [id |-> artifact.id, type |-> artifact.type,
                                         mode |-> mode],
                                        <<"select">> \o u.dbCalls)
    /\ UNCHANGED <<now, nextId, calls, created, player>>

\* faulty variant: the remaining episodes are counted before the update
MarkEpisodeCompleteCountsBefore(rpcId, args, db) ==
    /\ NoCallInFlight
    /\ started < MaxCalls
    /\ started' = started + 1
    /\ LET u == updateArtifactStatus(store, args.episode_id, "completed", <<>>, now,
                                     db[1], db[2])
       IN  /\ store' = u.tbl
           /\ IF u.returned = Absent
              THEN resp' = EpisodeNotFound(rpcId, "mark_episode_complete", u.dbCalls)
              ELSE \E remaining \in ListOr(getPendingArtifacts(store, DEMO_USER_ID), db[3]) :
                       resp' = JsonRpcResult(rpcId, "mark_episode_complete",
                                   [completed |-> TRUE, remainingCount |-> Len(remaining)],
                                   u.dbCalls \o <<"select">>)
    /\ UNCHANGED <<now, nextId, calls, created, player>>

\* tools/call mark_episode_complete
MarkEpisodeComplete(rpcId, args, db) ==
    /\ NoCallInFlight
    /\ started < MaxCalls
    /\ started' = started + 1
    /\ LET u == updateArtifactStatus(store, args.episode_id, "completed", <<>>, now,
                                     db[1], db[2])
       IN  /\ store' = u.tbl
           /\ IF u.returned = Absent
              THEN resp' = EpisodeNotFound(rpcId, "mark_episode_complete", u.dbCalls)
              ELSE \E remaining \in ListOr(getPendingArtifacts(u.tbl, DEMO_USER_ID), db[3]) :
                       resp' = JsonRpcResult(rpcId, "mark_episode_complete",
                                   [completed |-> TRUE, remainingCount |-> Len(remaining)],
                                   u.dbCalls \o <<"select">>)
    /\ UNCHANGED <<now, nextId, calls, created, player>>

\* the names of the tool catalogue, and names outside it
ToolNames ==
    {"show_drivetime", "get_todays_episodes", "get_episode_content",
     "mark_episode_complete", "add_to_queue"}
OtherToolNames == {"delete_episode", "get_episode"}

\* faulty variant: an unknown name is served as show_drivetime
UnknownToolFallsBack(rpcId, name) == ShowDrivetime(rpcId, DbUp)

\* tools/call with a name outside the catalogue: the default case
UnknownTool(rpcId, name) ==
    /\ name \notin ToolNames
    /\ resp' = JsonRpcResult(rpcId, name, [error |-> <<"Unknown tool: ", name>>], <<>>)
    /\ UNCHANGED <<store, now, nextId, calls, created, started, player>>

\* arguments of add_to_queue, the content possibly missing
QueueArgsOrNone == QueueArgs \cup [type : {"idea"}, content : {Undefined}]

\* tools/call add_to_queue when it raises: content is missing
\* (content.startsWith throws before anything is built), or the upsert of
\* saveArtifact reports an error; the catch block answers
AddToQueueFault(args, ok) ==
    /\ ~IsStr(args.content) \/ ~ok
    /\ IF ~IsStr(args.content)
       THEN /\ resp' = JsonRpcFault("add_to_queue", <<>>)
            /\ UNCHANGED <<store, nextId>>
       ELSE /\ nextId < MaxIds
            /\ LET o == saveArtifactOr(store, QueueArtifactOf(args, uuidv4(nextId), now), ok)
               IN  /\ store' = o.tbl
                   /\ resp' = JsonRpcFault("add_to_queue", <<"upsert">>)
            /\ nextId' = nextId + 1
    /\ UNCHANGED <<now, calls, created, started, player>>

\* the widget resource, and another uri
WIDGET_URI == <<"u", "i", ":", "w">>
OtherUri == <<"u", "i", ":", "x">>

\* bodies of POST requests to the endpoint other than a tools/call with
\* params: an unparsable body, or {id, method, params?}
McpMethods ==
    {"initialize", "tools/list", "tools/call", "resources/list", "resources/read",
     "ping"}
McpBodies ==
    {[malformed |-> TRUE]}
    \cup [malformed : {FALSE}, id : RpcIds, method : McpMethods, params : {Undefined}]
    \cup [malformed : {FALSE}, id : RpcIds, method : {"resources/read"},
          params : {Str(WIDGET_URI), Str(OtherUri)}]

\* faulty variant: the default case answers with id null
JsonRpcMethodNotFoundNullId(id) == JsonRpcError(Null, MethodNotFound)

\* the default case of the method switch
JsonRpcMethodNotFound(id) == JsonRpcError(id, MethodNotFound)

\* POST to the endpoint, every case but a tools/call that has params
PostMcp(body) ==
    /\ ~body.malformed /\ body.method = "tools/call" => body.params = Undefined
    /\ resp' =
         IF body.malformed
         THEN \* request.json() throws
              JsonRpcFault("none", <<>>)
         ELSE CASE body.method = "initialize" ->
                      JsonRpcResult(body.id, "none", [kind |-> "initialize"], <<>>)
                [] body.method = "tools/list" ->
                      JsonRpcResult(body.id, "none", [kind |-> "tools"], <<>>)
                [] body.method = "tools/call" ->
                      \* params.name of undefined throws
                      JsonRpcFault("none", <<>>)
                [] body.method = "resources/list" ->
                      JsonRpcResult(body.id, "none", [kind |-> "resources"], <<>>)
                [] body.method = "resources/read" ->
                      IF body.params = Undefined
                      THEN JsonRpcFault("none", <<>>)
                      ELSE IF body.params[2] = WIDGET_URI
                      THEN \* getWidgetHtml reads the pending queue
                           JsonRpcResult(body.id, "none", [kind |-> "contents"], <<"select">>)
                      ELSE JsonRpcError(body.id, InvalidParams)
                [] OTHER -> JsonRpcMethodNotFound(body.id)
    /\ UNCHANGED <<store, now, nextId, calls, created, started, player>>

\* ---------------------------------------------------------------- POST /api/tts
NoArtifactId == <<"undefined", 0>>
ArtifactIdOf(id) == <<"string", id>>
TtsBodies ==
    [artifactId : {NoArtifactId} \cup {ArtifactIdOf(id) : id \in Ids},
     mode : {Undefined, Str(ModeFull)}]

\* POST /api/tts; ok: whether the store answers the read; llmOk: whether
\* expandForAudio and generateTTS return (TRUE) or one of them throws
PostTts(body, ok, llmOk) ==
    /\ resp' =
         IF body.artifactId[1] # "string"
         THEN [op |-> "TTS", code |-> 400]
         ELSE IF getArtifactOr(store, body.artifactId[2], ok) = Absent
         THEN [op |-> "TTS", code |-> 404]
         ELSE IF ~llmOk
         THEN [op |-> "TTS", code |-> 500]
         ELSE [op |-> "TTS", code |-> 200]
    /\ UNCHANGED <<store, now, nextId, calls, created, started, player>>

\* ---------------------------------------------------------------- direct calls of store.ts
StoreReads ==
    {"getArtifact", "getAllArtifacts", "getArtifactsByDay", "getArtifactsByStatus"}
StoreWrites == {"saveArtifact", "updateArtifactStatus", "deleteArtifact"}

\* getDayGroups, which calls getAllArtifacts
StoreAggregates == {"getDayGroups"}

\* what a call of a store function gave its caller: an exception (threw),
\* or a value of the kind returned; dbCalls: the requests it sent to the
\* external store, in order
StoreOutcome(fn, failed, threw, returned, dbCalls) ==
    [op |-> "store", fn |-> fn, failed |-> failed, threw |-> threw, returned |-> returned,
     dbCalls |-> dbCalls]

\* a caller invokes one function of store.ts, not overlapping any other
\* request; db: the answers of the external store to the calls it makes
StoreCall(fn, id, status, db) ==
    /\ NoCallInFlight
    /\ fn \in StoreReads \cup StoreWrites \cup StoreAggregates
    /\ CASE fn = "getArtifact" ->
              /\ resp' = StoreOutcome(fn, ~db[1], FALSE,
                            IF getArtifactOr(store, id, db[1]) = Absent
                            THEN "null" ELSE "artifact", <<"select">>)
              /\ UNCHANGED <<store, started>>
         [] fn \in {"getAllArtifacts", "getArtifactsByDay", "getArtifactsByStatus"} ->
              /\ \E l \in ListOr(
                            CASE fn = "getAllArtifacts" -> getAllArtifacts(store, DEMO_USER_ID)
                              [] fn = "getArtifactsByDay" ->
                                    getArtifactsByDay(store, DEMO_USER_ID,
                                                      DatePart(toISOString(now)))
                              [] OTHER -> getArtifactsByStatus(store, DEMO_USER_ID, status),
                            db[1]) :
                     resp' = StoreOutcome(fn, ~db[1], FALSE,
                                 IF l = <<>> THEN "empty" ELSE "artifacts", <<"select">>)
              /\ UNCHANGED <<store, started>>
         [] fn = "getDayGroups" ->
              \* line 174: one getAllArtifacts, then aggregation in memory
              /\ \E userArtifacts \in ListOr(getAllArtifacts(store, DEMO_USER_ID), db[1]) :
                     resp' = StoreOutcome(fn, ~db[1], FALSE,
                                 IF DayGroupsOf(userArtifacts) = <<>>
                                 THEN "empty" ELSE "groups", <<"select">>)
              /\ UNCHANGED <<store, started>>
         [] fn = "saveArtifact" ->
              \* an artifact read earlier is saved again
              /\ \E r \in RowsById(store, id) :
                     LET o == saveArtifactOr(store, rowToArtifact(r), db[1])
                     IN  /\ store' = o.tbl
                         /\ resp' = StoreOutcome(fn, ~db[1], o.threw, "void", <<"upsert">>)
              /\ UNCHANGED started
         [] fn = "updateArtifactStatus" ->
              /\ started < MaxCalls
              /\ started' = started + 1
              /\ LET o == updateArtifactStatus(store, id, status, <<>>, now, db[1], db[2])
                     failed == ~db[1] \/ (getArtifact(store, id) # Absent /\ ~db[2])
                 IN  /\ store' = o.tbl
                     /\ resp' = StoreOutcome(fn, failed, o.threw,
                                    IF o.returned = Absent THEN "null" ELSE "artifact",
                                    o.dbCalls)
         [] fn = "deleteArtifact" ->
              /\ LET o == deleteArtifactOr(store, id, db[1])
                 IN  /\ store' = o.tbl
                     /\ resp' = StoreOutcome(fn, ~db[1], o.threw,
                                    IF o.returned THEN "true" ELSE "false",
                                    <<"delete">>)
              /\ UNCHANGED started
    /\ UNCHANGED <<now, nextId, calls, created, player>>

\* the direct calls tried: a status other than ready only where the
\* function takes one, a failing second store call only where it makes two
StoreCalls ==
    {c \in [fn : StoreReads \cup StoreWrites \cup StoreAggregates, id : Ids,
            status : {"ready", "playing"},
            db : DbAnswersOfTwo] :
        /\ c.fn \notin {"getArtifactsByStatus", "updateArtifactStatus"} => c.status = "ready"
        /\ c.fn # "updateArtifactStatus" => c.db[2]}

\* ---------------------------------------------------------------- specifications of the tool calls
\* the tool-call endpoint and the requests that set up its episodes, one
\* request at a time, the external store answering every call
NextTools ==
    \/ Tick
    \/ \E args \in LifeArgs : AddToQueue(args)
    \/ \E p \in Procs, id \in Ids, status \in {"processing", "ready"}, af \in NoFieldPatches :
           UpdateReadSeq(p, id, status, af)
    \/ \E p \in Procs : UpdateWrite(p)
    \/ \E rpcId \in RpcIds : ShowDrivetime(rpcId, DbUp)
    \/ \E rpcId \in RpcIds, args \in EpisodesArgs : GetTodaysEpisodes(rpcId, args, DbUp)
    \/ \E rpcId \in RpcIds, args \in ContentArgs, llmOk \in BOOLEAN :
           GetEpisodeContent(rpcId, args, DbUp, llmOk)
    \/ \E rpcId \in RpcIds, args \in [episode_id : Ids] : MarkEpisodeComplete(rpcId, args, DbUp)
    \/ \E rpcId \in RpcIds, name \in OtherToolNames : UnknownTool(rpcId, name)

SpecTools == Init /\ [][NextTools]_vars

\* the endpoint when the external store may report an error to any call
\* and requests may be malformed
NextFail ==
    \/ Tick
    \/ \E args \in LifeArgs : AddToQueue(args)
    \/ \E args \in QueueArgsOrNone, ok \in BOOLEAN : AddToQueueFault(args, ok)
    \/ \E body \in McpBodies : PostMcp(body)
    \/ \E db \in DbAnswersOfOne : ShowDrivetime(Str(<<"a">>), db)
    \/ \E args \in ContentArgs, db \in DbAnswers, llmOk \in BOOLEAN :
           GetEpisodeContent(Str(<<"a">>), args, db, llmOk)
    \/ \E args \in [episode_id : Ids], db \in DbAnswers :
           MarkEpisodeComplete(Str(<<"a">>), args, db)
    \/ \E name \in OtherToolNames : UnknownTool(Str(<<"b">>), name)

SpecFail == Init /\ [][NextFail]_vars

\* the functions of store.ts called directly, one call at a time, when the
\* external store may report an error to any call
NextStore ==
    \/ Tick
    \/ \E args \in LifeArgs : AddToQueue(args)
    \/ \E c \in StoreCalls : StoreCall(c.fn, c.id, c.status, c.db)

SpecStore == Init /\ [][NextStore]_vars

\* the requests that validate their body, over bodies with and without the
\* required field, the external store answering or not
NextValidate ==
    \/ Tick
    \/ \E body \in {b \in PostBodies : b.type = "idea"} : PostArtifacts(body)
    \/ \E args \in LifeArgs : AddToQueue(args)
    \/ \E body \in TtsBodies, ok \in BOOLEAN, llmOk \in BOOLEAN : PostTts(body, ok, llmOk)

SpecValidate == Init /\ [][NextValidate]_vars

\* ---------------------------------------------------------------- the list reads, called directly
\* user ids: the one the routes use, and another one
Users == {DEMO_USER_ID, "other-user"}

\* a caller saves a new artifact of any user through saveArtifact
SaveArtifactFor(userId, args) ==
    /\ nextId < MaxIds
    /\ LET artifact == [QueueArtifactOf(args, uuidv4(nextId), now) EXCEPT !.userId = userId]
       IN  /\ store' = saveArtifact(store, artifact)
           /\ created' = created @@
                  (artifact.id :> [via |-> "saveArtifact", request |-> args,
                                   artifact |-> artifact])
           /\ resp' = [op |-> "saveArtifact", code |-> 200]
    /\ nextId' = nextId + 1
    /\ UNCHANGED <<now, calls, started, player>>

\* the dates a dayBucket can hold
Dates == {DatePart(toISOString(t)) : t \in 0..MaxTime}

\* a caller invokes getAllArtifacts, getArtifactsByDay or
\* getArtifactsByStatus; the answer records the call and the list returned
ReadArtifacts(fn, userId, date, status) ==
    /\ \E l \in CASE fn = "getAllArtifacts" -> getAllArtifacts(store, userId)
               [] fn = "getArtifactsByDay" -> getArtifactsByDay(store, userId, date)
               [] fn = "getArtifactsByStatus" -> getArtifactsByStatus(store, userId, status) :
           resp' = [op |-> "read", fn |-> fn, userId |-> userId, date |-> date,
                    status |-> status, artifacts |-> l]
    /\ UNCHANGED <<store, now, nextId, calls, created, started, player>>

\* the reads tried: the date and status vary only where the function takes them
ReadCalls ==
    {c \in [fn : {"getAllArtifacts", "getArtifactsByDay", "getArtifactsByStatus"},
            userId : Users, date : Dates, status : {"pending", "ready"}] :
        /\ c.fn # "getArtifactsByDay" => c.date = DatePart(toISOString(0))
        /\ c.fn # "getArtifactsByStatus" => c.status = "pending"}

\* the list reads over a table that holds artifacts of two users
NextReads ==
    \/ Tick
    \/ \E userId \in Users, args \in LifeArgs : SaveArtifactFor(userId, args)
    \/ \E p \in Procs, id \in Ids, af \in NoFieldPatches : UpdateReadSeq(p, id, "ready", af)
    \/ \E p \in Procs : UpdateWrite(p)
    \/ \E c \in ReadCalls : ReadArtifacts(c.fn, c.userId, c.date, c.status)

SpecReads == Init /\ [][NextReads]_vars

\* PATCH /api/artifacts/{id} over every patch, no two calls overlapping
NextPatch ==
    \/ Tick
    \/ \E args \in LifeArgs : AddToQueue(args)
    \/ \E p \in Procs, id \in Ids, status \in ArtifactStatus, af \in Patches :
           UpdateReadSeq(p, id, status, af)
    \/ \E p \in Procs : UpdateWrite(p)

SpecPatch == Init /\ [][NextPatch]_vars

\* updateArtifactStatus called while the call before it is between its read
\* and its write (the first call starts at any time)
UpdateReadOverlapping(p, id, status, additionalFields) ==
    /\ started = 0 \/ \E q \in Procs : calls[q].pc = "write"
    /\ UpdateRead(p, id, status, additionalFields)

\* two PATCH requests that overlap, over every patch
NextRace ==
    \/ Tick
    \/ \E args \in LifeArgs : AddToQueue(args)
    \/ \E p \in Procs, id \in Ids, status \in ArtifactStatus, af \in Patches :
           UpdateReadOverlapping(p, id, status, af)
    \/ \E p \in Procs : UpdateWrite(p)

SpecRace == Init /\ [][NextRace]_vars

\* every request that writes the store: creation, PATCH in any
\* interleaving, DELETE and the two tool calls that update a status
NextPublic ==
    \/ Next
    \/ \E args \in ContentArgs : GetEpisodeContent(Str(<<"a">>), args, DbUp, TRUE)
    \/ \E args \in [episode_id : Ids] : MarkEpisodeComplete(Str(<<"a">>), args, DbUp)

SpecPublic == Init /\ [][NextPublic]_vars

\* ---------------------------------------------------------------- GET /api/artifacts
\* line 22: the handler awaits getAllArtifacts(DEMO_USER_ID)
GetArtifactsList(p) ==
    /\ calls[p].pc = "idle"
    /\ \E artifacts \in getAllArtifacts(store, DEMO_USER_ID) :
           calls' = [calls EXCEPT ![p] = [pc |-> "groups", artifacts |-> artifacts]]
    /\ UNCHANGED <<store, now, nextId, created, started, resp, player>>

\* lines 23-28: it awaits getDayGroups(DEMO_USER_ID), which reads the
\* table again, and answers {artifacts, dayGroups}
GetArtifactsGroups(p) ==
    /\ calls[p].pc = "groups"
    /\ \E userArtifacts \in getAllArtifacts(store, DEMO_USER_ID) :
           resp' = [op |-> "GET", code |-> 200,
                    artifacts |-> calls[p].artifacts,
                    dayGroups |-> DayGroupsOf(userArtifacts)]
    /\ calls' = [calls EXCEPT ![p] = Idle]
    /\ UNCHANGED <<store, now, nextId, created, started, player>>

\* GET /api/artifacts while other requests create, update and delete
NextList ==
    \/ Tick
    \/ \E args \in LifeArgs : AddToQueue(args)
    \/ \E p \in Procs, id \in Ids, status \in {"ready", "completed"} :
           UpdateRead(p, id, status, <<>>)
    \/ \E p \in Procs : UpdateWrite(p)
    \/ \E id \in Ids : DeleteArtifact(id)
    \/ \E p \in Procs : GetArtifactsList(p)
    \/ \E p \in Procs : GetArtifactsGroups(p)

SpecList == Init /\ [][NextList]_vars

\* ---------------------------------------------------------------- the drive page
\* faulty variant: an artifact that is playing is playable too
IsPlayableOrPlaying(a) == a.status \in {"ready", "pending", "playing"}

\* fetchEpisodes, line 170: the filter of the queue
IsPlayable(a) == a.status = "ready" \/ a.status = "pending"

\* the page is loaded: fetchEpisodes reads GET /api/artifacts and keeps the
\* playable artifacts of data.artifacts, in order
FetchEpisodes ==
    /\ \E artifacts \in getAllArtifacts(store, DEMO_USER_ID) :
           player' = [PlayerInit EXCEPT !.episodes = SelectSeq(artifacts, IsPlayable)]
    /\ resp' = [op |-> "fetchEpisodes", code |-> 200]
    /\ UNCHANGED <<store, now, nextId, calls, created, started>>

\* episodes[currentIndex], indices counted from 0
CurrentEpisode == player.episodes[player.currentIndex + 1]
HasCurrentEpisode == player.currentIndex < Len(player.episodes)

\* handlePlayPause, lines 213-225, with playEpisode, lines 180-211; ttsOk:
\* whether the speech synthesis behind POST /api/tts succeeds
HandlePlayPause(ttsOk) ==
    /\ player.episodes # <<>>
    /\ IF player.isPlaying
       THEN /\ player' = [player EXCEPT !.isPlaying = FALSE]
            /\ resp' = [op |-> "pause"]
            /\ UNCHANGED store
       ELSE IF player.src
       THEN /\ player' = [player EXCEPT !.isPlaying = TRUE]
            /\ resp' = [op |-> "play"]
            /\ UNCHANGED store
       ELSE IF HasCurrentEpisode
       THEN LET id == CurrentEpisode.id
                u == updateArtifactStatus(store, id, "playing", <<>>, now, TRUE, TRUE)
                tts == IF getArtifact(u.tbl, id) = Absent THEN 404
                       ELSE IF ttsOk THEN 200 ELSE 500
            IN  /\ store' = u.tbl
                /\ resp' = [op |-> "playEpisode", id |-> id,
                            patch |-> IF u.returned = Absent THEN 404 ELSE 200,
                            tts |-> tts]
                /\ player' = IF tts = 200
                             THEN [player EXCEPT !.src = TRUE, !.isPlaying = TRUE]
                             ELSE player
       ELSE UNCHANGED <<store, resp, player>>
    /\ UNCHANGED <<now, nextId, calls, created, started>>

\* handleNext, lines 228-234: the PATCH to completed for the current
\* episode is sent and served; the handler waits for the answer with the
\* currentIndex it was called with
SendCompleted(pl) ==
    /\ Len(pl.awaiting) < MaxAwaiting
    /\ IF pl.currentIndex < Len(pl.episodes)
       THEN LET id == pl.episodes[pl.currentIndex + 1].id
                u == updateArtifactStatus(store, id, "completed", <<>>, now, TRUE, TRUE)
            IN  /\ store' = u.tbl
                /\ resp' = [op |-> "handleNext", id |-> id, status |-> "completed",
                            code |-> IF u.returned = Absent THEN 404 ELSE 200,
                            last |-> pl.currentIndex = Len(pl.episodes) - 1]
       ELSE /\ resp' = [op |-> "handleNext", id |-> 0, status |-> "none", code |-> 0,
                        last |-> FALSE]
            /\ UNCHANGED store
    /\ player' = [pl EXCEPT !.awaiting = Append(pl.awaiting, pl.currentIndex)]
    /\ UNCHANGED <<now, nextId, calls, created, started>>

\* the Next button, enabled unless the current episode is the last
HandleNext ==
    /\ player.episodes # <<>>
    /\ player.currentIndex # Len(player.episodes) - 1
    /\ SendCompleted(player)

\* the audio element fires ended: handleEnded, lines 253-256
HandleEnded ==
    /\ player.isPlaying /\ player.src
    /\ SendCompleted([player EXCEPT !.isPlaying = FALSE])

\* faulty variant: the index advances whether or not an episode follows
HandleNextResumeUnguarded(k) ==
    /\ k \in 1..Len(player.awaiting)
    /\ LET currentIndex == player.awaiting[k]
           rest == [i \in 1..(Len(player.awaiting) - 1) |->
                       IF i < k THEN player.awaiting[i] ELSE player.awaiting[i + 1]]
       IN  player' = [player EXCEPT !.awaiting = rest,
                                    !.currentIndex = currentIndex + 1,
                                    !.isPlaying = FALSE, !.src = FALSE]
    /\ UNCHANGED <<store, now, nextId, calls, created, started, resp>>

\* handleNext, lines 236-241, after the PATCH of the k-th waiting call
\* has returned
HandleNextResume(k) ==
    /\ k \in 1..Len(player.awaiting)
    /\ LET currentIndex == player.awaiting[k]
           rest == [i \in 1..(Len(player.awaiting) - 1) |->
                       IF i < k THEN player.awaiting[i] ELSE player.awaiting[i + 1]]
       IN  player' = IF currentIndex < Len(player.episodes) - 1
                     THEN [player EXCEPT !.awaiting = rest,
                                         !.currentIndex = currentIndex + 1,
                                         !.isPlaying = FALSE, !.src = FALSE]
                     ELSE [player EXCEPT !.awaiting = rest]
    /\ UNCHANGED <<store, now, nextId, calls, created, started, resp>>

\* the Previous button, enabled unless the current episode is the first:
\* handlePrevious, lines 244-251
HandlePrevious ==
    /\ player.episodes # <<>>
    /\ player.currentIndex # 0
    /\ player' = IF player.currentIndex > 0
                 THEN [player EXCEPT !.currentIndex = player.currentIndex - 1,
                                     !.isPlaying = FALSE, !.src = FALSE]
                 ELSE player
    /\ resp' = [op |-> "handlePrevious"]
    /\ UNCHANGED <<store, now, nextId, calls, created, started>>

\* the drive page, the creations that fill its queue and the PATCH that
\* makes an artifact ready, all within one tick of the clock
NextDrive ==
    \/ \E args \in LifeArgs : AddToQueue(args)
    \/ \E id \in Ids : UpdateReadSeq(1, id, "ready", <<>>)
    \/ \E p \in Procs : UpdateWrite(p)
    \/ FetchEpisodes
    \/ \E ttsOk \in BOOLEAN : HandlePlayPause(ttsOk)
    \/ HandleNext
    \/ HandleEnded
    \/ \E k \in 1..MaxAwaiting : HandleNextResume(k)
    \/ HandlePrevious

SpecDrive == Init /\ [][NextDrive]_vars

\* ================================================================ claims
\* the row of id in a table holding exactly one such row
RowOf(tbl, id) == CHOOSE r \in tbl : r.id = id
HasRow(tbl, id) == Cardinality(RowsById(tbl, id)) = 1

\* request slot p returns from its update of a row that exists
WriteDone(p) == calls[p].pc = "write" /\ calls'[p].pc = "idle" /\ HasRow(store, calls[p].id)

\* the timestamps new Date().toISOString() can have produced so far
StampsSoFar == {Str(toISOString(t)) : t \in 0..now}

\* C1: when updateStatus calls do not overlap, a call with status 'playing'
\* leaves the artifact with a non-null playedAt, and a playedAt that is
\* non-null keeps its value through every later step, further
\* updateStatus(id, 'playing') calls included.
C1_PlayedAtStampedOnce ==
    [][ /\ \A p \in Procs :
              (WriteDone(p) /\ calls[p].status = "playing")
                  => Truthy(rowToArtifact(RowOf(store', calls[p].id)).playedAt)
        /\ \A r \in store : \A r2 \in store' :
              (r2.id = r.id /\ Truthy(rowToArtifact(r).playedAt))
                  => rowToArtifact(r2).playedAt = rowToArtifact(r).playedAt ]_vars

\* a second 'playing' call returned for an artifact stamped at an earlier
\* clock reading
C1_Witness ==
    /\ resp.op = "PATCH" /\ resp.code = 200
    /\ resp.status = "playing" /\ "played_at" \notin resp.columns
    /\ \E r \in store :
          /\ r.id = resp.id /\ r.status = "playing"
          /\ Truthy(r.played_at) /\ r.played_at # Str(toISOString(now))

\* C2: when updateStatus calls do not overlap, updateStatus(id, 'completed')
\* on an artifact without completedAt sets completedAt to a timestamp and
\* status to 'completed'; on an artifact with completedAt it leaves
\* completedAt unchanged.
C2_CompletedAtStampedOnce ==
    [][ \A p \in Procs :
          (WriteDone(p) /\ calls[p].status = "completed") =>
              LET before == rowToArtifact(RowOf(store, calls[p].id))
                  after == rowToArtifact(RowOf(store', calls[p].id))
              IN  /\ after.status = "completed"
                  /\ ~Truthy(before.completedAt) => after.completedAt \in StampsSoFar
                  /\ Truthy(before.completedAt) => after.completedAt = before.completedAt ]_vars

\* a second 'completed' call returned for an artifact completed at an
\* earlier clock reading
C2_Witness ==
    /\ resp.op = "PATCH" /\ resp.code = 200
    /\ resp.status = "completed" /\ "completed_at" \notin resp.columns
    /\ \E r \in store :
          /\ r.id = resp.id /\ r.status = "completed"
          /\ Truthy(r.completed_at) /\ r.completed_at # Str(toISOString(now))

\* C3: under any interleaving of the read and write steps of concurrent
\* requests, a playedAt or completedAt that is non-null is never replaced by
\* a different value.
C3_StampsNeverReplaced ==
    [][ \A r \in store : \A r2 \in store' :
          r2.id = r.id =>
              /\ Truthy(r.played_at) => r2.played_at = r.played_at
              /\ Truthy(r.completed_at) => r2.completed_at = r.completed_at ]_vars

\* ---------------------------------------------------------------- creation claims
\* the rows persisted by a creation request of the given kind
CreatedVia(via) == {r \in store : r.id \in DOMAIN created /\ created[r.id].via = via}

\* a field of a request body that is there at all (any string, even "")
Present(v) == v # Undefined

\* "URL-shaped": starts with http:// or https://
UrlPrefixes ==
    { <<"h", "t", "t", "p", ":", "/", "/">>, <<"h", "t", "t", "p", "s", ":", "/", "/">> }
IsUrlShaped(c) == \E pre \in UrlPrefixes : Len(c) >= Len(pre) /\ SubSeq(c, 1, Len(pre)) = pre

\* C4 as stated: a POST with imageData present persists type 'screenshot';
\* with imageData absent and sourceUrl present type 'article'; with both
\* absent the requested type.
C4_PresentImageIsScreenshot ==
    \A r \in CreatedVia("POST") :
        LET b == created[r.id].request
        IN  /\ Present(b.imageData) => r.type = "screenshot"
            /\ (~Present(b.imageData) /\ Present(b.sourceUrl)) => r.type = "article"
            /\ (~Present(b.imageData) /\ ~Present(b.sourceUrl)) => r.type = b.type

\* C4 (amended): a POST with a non-empty imageData persists type
\* 'screenshot' whatever the requested type and sourceUrl; with imageData
\* absent or empty and a non-empty sourceUrl type 'article'; with both
\* absent or empty the requested type.
C4_NonEmptyImageIsScreenshot ==
    \A r \in CreatedVia("POST") :
        LET b == created[r.id].request
            image == Present(b.imageData) /\ b.imageData[2] # <<>>
            url == Present(b.sourceUrl) /\ b.sourceUrl[2] # <<>>
        IN  /\ image => r.type = "screenshot"
            /\ (~image /\ url) => r.type = "article"
            /\ (~image /\ ~url) => r.type = b.type

\* a row created with both an image and a source URL, and one created with
\* an empty imageData
C4_Witness ==
    /\ \E r \in CreatedVia("POST") :
          /\ created[r.id].request.imageData = Str(ImageB64)
          /\ created[r.id].request.sourceUrl = Str(HttpUrl)
          /\ r.type = "screenshot" /\ r.image_data = Str(ImageB64)
    /\ \E r \in CreatedVia("POST") :
          /\ created[r.id].request.imageData = Str(<<>>)
          /\ r.type # "screenshot"

C6_AddToQueueInfersArticle ==
    [][ (nextId' = nextId + 1 /\ created'[nextId'].via = "add_to_queue") =>
            LET a == created'[nextId'].request
                c == a.content[2]
                added == store' \ store
            IN  /\ store \subseteq store'
                /\ Cardinality(added) = 1
                /\ \A r \in added :
                      /\ r.id = nextId'
                      /\ IF IsUrlShaped(c)
                         THEN r.type = "article" /\ rowToArtifact(r).sourceUrl = Str(c)
                         ELSE r.type = a.type /\ rowToArtifact(r).sourceUrl = Undefined ]_vars

\* add_to_queue {type:'note', content:'https://x'} and {type:'note',
\* content:'hi'} were both persisted
C6_Witness ==
    /\ \E r \in CreatedVia("add_to_queue") :
          /\ created[r.id].request = [type |-> "note", content |-> Str(HttpsUrl)]
          /\ r.type = "article"
    /\ \E r \in CreatedVia("add_to_queue") :
          /\ created[r.id].request = [type |-> "note", content |-> Str(PlainText)]
          /\ r.type = "note"

\* C7: a creation request persists one row under an id never used before,
\* with status 'pending' and playedAt and completedAt absent, and changes no
\* other row; the table never holds two rows of one id.
C7_CreatedPendingUnderFreshId ==
    /\ [][ nextId' = nextId + 1 =>
             LET added == store' \ store
             IN  /\ store \subseteq store'
                 /\ Cardinality(added) = 1
                 /\ \A r \in added :
                       /\ r.id \notin DOMAIN created
                       /\ \A old \in store : old.id # r.id
                       /\ rowToArtifact(r).status = "pending"
                       /\ rowToArtifact(r).playedAt = Undefined
                       /\ rowToArtifact(r).completedAt = Undefined ]_vars
    /\ [](\A r1 \in store : \A r2 \in store : r1.id = r2.id => r1 = r2)

\* a second artifact was created after the first was updated and deleted
C7_Witness ==
    /\ resp.op \in {"POST", "add_to_queue"} /\ resp.code = 200
    /\ started > 0
    /\ DOMAIN created = {1, 2}
    /\ \E r \in store : r.id = 2 /\ r.status = "pending"
    /\ ~\E r \in store : r.id = 1

\* d is the part of the ISO string iso before its 'T'
IsDateOf(d, iso) ==
    /\ Len(iso) > Len(d)
    /\ \A i \in 1..Len(d) : iso[i] = d[i] /\ d[i] # "T"
    /\ iso[Len(d) + 1] = "T"

\* C8: the dayBucket built at creation is the date part of createdAt, and
\* every stored artifact has the id, createdAt and dayBucket its creation
\* request built, whatever requests ran since.
C8_DayBucketFixedAtCreation ==
    \A r \in store :
        /\ r.id \in DOMAIN created
        /\ LET a == created[r.id].artifact
           IN  /\ IsDateOf(a.dayBucket, a.createdAt)
               /\ rowToArtifact(r).id = a.id
               /\ rowToArtifact(r).createdAt = a.createdAt
               /\ rowToArtifact(r).dayBucket = a.dayBucket

\* an artifact was completed by a PATCH one day after its creation
C8_Witness ==
    /\ resp.op = "PATCH" /\ resp.code = 200
    /\ \E r \in store :
          /\ r.id = resp.id /\ r.status = "completed"
          /\ Truthy(r.completed_at)
          /\ ~IsDateOf(r.day_bucket, r.completed_at[2])

\* ---------------------------------------------------------------- getDayGroups claims
\* number of the artifacts of a sequence whose status is in S
NumWithStatus(arts, S) == Cardinality({k \in 1..Len(arts) : arts[k].status \in S})

\* C9: in every DayGroup returned by getDayGroups, stats.pending counts the
\* statuses pending and processing, stats.ready and stats.completed their
\* own status, stats.total all artifacts of the group, and pending + ready
\* + completed + (number playing) = total.
C9_StatsCountStatuses ==
    resp.op = "getDayGroups" =>
        \A i \in 1..Len(resp.body) :
            LET g == resp.body[i]
            IN  /\ g.stats.pending = NumWithStatus(g.artifacts, {"pending", "processing"})
                /\ g.stats.ready = NumWithStatus(g.artifacts, {"ready"})
                /\ g.stats.completed = NumWithStatus(g.artifacts, {"completed"})
                /\ g.stats.total = Len(g.artifacts)
                /\ g.stats.pending + g.stats.ready + g.stats.completed
                       + NumWithStatus(g.artifacts, {"playing"}) = g.stats.total

\* getDayGroups returned a group holding a processing and a playing artifact
C9_Witness ==
    /\ resp.op = "getDayGroups"
    /\ \E i \in 1..Len(resp.body) :
          /\ NumWithStatus(resp.body[i].artifacts, {"processing"}) = 1
          /\ NumWithStatus(resp.body[i].artifacts, {"playing"}) = 1

\* date string a sorts after date string b
DateAfter(a, b) ==
    \E k \in 1..Len(a) :
        /\ k <= Len(b)
        /\ SubSeq(a, 1, k - 1) = SubSeq(b, 1, k - 1)
        /\ CharCode(a[k]) > CharCode(b[k])

\* C10: the groups returned by getDayGroups are strictly descending by
\* date: each group's date sorts after the date of every later group.
C10_GroupsStrictlyDescending ==
    resp.op = "getDayGroups" =>
        \A i \in 1..Len(resp.body) : \A j \in 1..Len(resp.body) :
            i < j => DateAfter(resp.body[i].date, resp.body[j].date)

\* getDayGroups returned two groups
C10_Witness ==
    /\ resp.op = "getDayGroups"
    /\ Len(resp.body) = 2
    /\ resp.body[1].date = <<"0", "1">>
    /\ resp.body[2].date = <<"0", "0">>

\* ---------------------------------------------------------------- not-found and transition claims
\* C11: deleting an id that has no stored artifact reports failure:
\* deleteArtifact returns false, so DELETE /api/artifacts/{id} answers 404,
\* and the store is unchanged.
C11_DeleteMissingReportsNotFound ==
    [][ \A id \in Ids :
          (DeleteArtifact(id) /\ ~HasRow(store, id))
              => (resp'.op = "DELETE" /\ resp'.code = 404 /\ store' = store) ]_vars

\* C13: updateStatus(id, s) on an existing artifact succeeds and leaves it
\* in status s, whatever its status was: no (from, to) pair is rejected.
C13_AnyStatusToAnyStatus ==
    [][ \A p \in Procs :
          WriteDone(p) =>
              /\ resp'.op = "PATCH" /\ resp'.code = 200
              /\ rowToArtifact(RowOf(store', calls[p].id)).status = calls[p].status ]_vars

\* an artifact that was completed went back to pending or playing
C13_Witness ==
    /\ resp.op = "PATCH" /\ resp.code = 200
    /\ resp.status \in {"pending", "playing"}
    /\ \E r \in store :
          /\ r.id = resp.id /\ r.status = resp.status
          /\ Truthy(r.completed_at)

\* C14: updateStatus on an id with no stored artifact returns absent and
\* issues no write, PATCH /api/artifacts/{id} answers 404 and the store is
\* unchanged.
C14_UpdateMissingIsNotFound ==
    [][ \A p \in Procs, id \in Ids, status \in ArtifactStatus, af \in Patches :
          (UpdateRead(p, id, status, af) /\ ~HasRow(store, id))
              => /\ calls' = calls
                 /\ store' = store
                 /\ resp'.op = "PATCH" /\ resp'.code = 404 /\ resp'.columns = {} ]_vars

\* a PATCH of a missing id was answered 404 while another artifact is stored
C14_Witness ==
    /\ resp.op = "PATCH" /\ resp.code = 404 /\ resp.columns = {}
    /\ ~HasRow(store, resp.id)
    /\ store # {}
    /\ NoCallInFlight

\* ---------------------------------------------------------------- tool-call claims
\* no name of a store write among the store calls of a request
NoWriteAmong(dbCalls) ==
    \A k \in 1..Len(dbCalls) : dbCalls[k] \notin {"update", "upsert", "delete"}

\* C12: get_episode_content with an episode_id that matches no stored
\* artifact returns structuredContent {error: 'Episode not found'}, throws
\* nothing, performs no store write and leaves every artifact unchanged.
C12_UnknownEpisodeIsStructuredError ==
    [][ \A rpcId \in RpcIds, args \in ContentArgs, llmOk \in BOOLEAN :
          (~HasRow(store, args.episode_id) /\ GetEpisodeContent(rpcId, args, DbUp, llmOk))
              => /\ resp'.code = 200 /\ resp'.error = 0 /\ resp'.rpcId = rpcId
                 /\ resp'.result = [error |-> "Episode not found"]
                 /\ NoWriteAmong(resp'.dbCalls)
                 /\ store' = store ]_vars

\* get_episode_content answered 'Episode not found' while another artifact
\* is stored
C12_Witness ==
    /\ resp.op = "tools/call" /\ resp.tool = "get_episode_content"
    /\ resp.result = [error |-> "Episode not found"]
    /\ store # {}

\* the ids of the user's artifacts in status ready
ReadyIds == {r.id : r \in {x \in store : x.user_id = DEMO_USER_ID /\ x.status = "ready"}}

\* the set of the elements of a sequence
Range(seq) == {seq[k] : k \in 1..Len(seq)}

\* C15: getPending gives the user's artifacts in status 'ready' and none in
\* status 'pending': show_drivetime counts, and get_todays_episodes with
\* status 'pending' or no status lists, exactly the artifacts in status
\* 'ready'.
C15_PendingQueueIsReady ==
    (resp.op = "tools/call" /\ resp.error = 0) =>
        /\ resp.tool = "show_drivetime" =>
              /\ resp.result.episodeCount = Cardinality(ReadyIds)
              /\ Range(resp.result.episodes) = ReadyIds
        /\ (resp.tool = "get_todays_episodes"
              /\ resp.result.status \in {Undefined, Str(StatusPending)}) =>
              /\ resp.result.count = Cardinality(ReadyIds)
              /\ Len(resp.result.episodes) = Cardinality(ReadyIds)
              /\ Range(resp.result.episodes) = ReadyIds

\* get_todays_episodes without a status listed the one ready artifact
\* while a pending one is stored
C15_Witness ==
    /\ resp.op = "tools/call" /\ resp.tool = "get_todays_episodes"
    /\ resp.result.status = Undefined
    /\ resp.result.count = 1
    /\ \E r \in store : r.status = "pending"

\* C18: a tools/call naming a tool outside the catalogue returns a
\* structured error naming the tool, throws nothing and neither reads nor
\* writes the store.
C18_UnknownToolIsStructuredError ==
    [][ \A rpcId \in RpcIds, name \in OtherToolNames :
          UnknownTool(rpcId, name)
              => /\ resp'.code = 200 /\ resp'.error = 0 /\ resp'.rpcId = rpcId
                 /\ resp'.result = [error |-> <<"Unknown tool: ", name>>]
                 /\ resp'.dbCalls = <<>>
                 /\ store' = store ]_vars

\* an unknown tool was answered while artifacts are stored
C18_Witness ==
    /\ resp.op = "tools/call" /\ resp.tool = "delete_episode"
    /\ resp.error = 0
    /\ store # {}

\* C20: when get_episode_content returns a non-error result for an
\* existing artifact, no other request interleaved, the artifact has status
\* 'playing' and a playedAt: the one it had, or the time of the call.
C20_EpisodeContentMarksPlaying ==
    [][ \A rpcId \in RpcIds, args \in ContentArgs, llmOk \in BOOLEAN :
          ( /\ HasRow(store, args.episode_id)
            /\ GetEpisodeContent(rpcId, args, DbUp, llmOk)
            /\ resp'.error = 0
            /\ "error" \notin DOMAIN resp'.result )
              => LET before == rowToArtifact(RowOf(store, args.episode_id))
                     after == rowToArtifact(RowOf(store', args.episode_id))
                 IN  /\ after.status = "playing"
                     /\ Truthy(after.playedAt)
                     /\ Truthy(before.playedAt) => after.playedAt = before.playedAt
                     /\ ~Truthy(before.playedAt) => after.playedAt = Str(toISOString(now)) ]_vars

\* get_episode_content returned the content of an artifact that was
\* completed, played at an earlier clock reading
C20_Witness ==
    /\ resp.op = "tools/call" /\ resp.tool = "get_episode_content"
    /\ resp.error = 0 /\ "id" \in DOMAIN resp.result
    /\ \E r \in store :
          /\ r.id = resp.result.id /\ r.status = "playing"
          /\ Truthy(r.completed_at)
          /\ r.played_at # Str(toISOString(now))

\* ---------------------------------------------------------------- failure claims
\* C16: when the external store reports a failure, the read operations
\* (get, getAll, getByDay, getByStatus) return absent or an empty sequence
\* without throwing, and the write operations (save, updateStatus, delete)
\* propagate the failure as an error instead of returning a value.
C16_ReadsAbsentWritesThrow ==
    (resp.op = "store" /\ resp.failed) =>
        /\ resp.fn \in StoreReads => (~resp.threw /\ resp.returned \in {"null", "empty"})
        /\ resp.fn \in StoreWrites => resp.threw

\* the methods the endpoint serves
KnownMethods ==
    {"initialize", "tools/list", "tools/call", "resources/list", "resources/read"}

C19_MissingFieldIsBadRequest ==
    [][ /\ \A body \in PostBodies :
              (PostArtifacts(body) /\ ~Present(body.content))
                  => (resp'.op = "POST" /\ resp'.code = 400 /\ store' = store)
        /\ \A body \in TtsBodies, ok \in BOOLEAN, llmOk \in BOOLEAN :
              (PostTts(body, ok, llmOk) /\ body.artifactId = NoArtifactId)
                  => (resp'.op = "TTS" /\ resp'.code = 400 /\ store' = store) ]_vars

\* ---------------------------------------------------------------- completion, reads and frame claims
\* the user's rows of a table in status ready
ReadyRowsOf(tbl) == {r \in tbl : r.user_id = DEMO_USER_ID /\ r.status = "ready"}

\* C21: mark_episode_complete on an existing artifact sets its status to
\* 'completed' and returns remainingCount equal to the number of the
\* user's artifacts getPending selects after that update; on an unknown
\* episode_id it returns 'Episode not found' and changes nothing.
C21_MarkCompleteCountsRemaining ==
    [][ \A rpcId \in RpcIds, args \in [episode_id : Ids] :
          MarkEpisodeComplete(rpcId, args, DbUp) =>
              IF HasRow(store, args.episode_id)
              THEN /\ rowToArtifact(RowOf(store', args.episode_id)).status = "completed"
                   /\ resp'.error = 0
                   /\ resp'.result = [completed |-> TRUE,
                                      remainingCount |-> Cardinality(ReadyRowsOf(store'))]
                   /\ \A r \in store : r.id # args.episode_id => r \in store'
              ELSE /\ resp'.error = 0
                   /\ resp'.result = [error |-> "Episode not found"]
                   /\ store' = store ]_vars

\* an artifact was completed while another one is ready
C21_Witness ==
    /\ resp.op = "tools/call" /\ resp.tool = "mark_episode_complete"
    /\ resp.result = [completed |-> TRUE, remainingCount |-> 1]
    /\ \E r \in store : r.status = "completed" /\ Truthy(r.completed_at)
    /\ Cardinality(store) = 2

\* the rows a list read is to select
Selected(fn, userId, date, status) ==
    {r \in store :
        /\ r.user_id = userId
        /\ fn = "getArtifactsByDay" => r.day_bucket = date
        /\ fn = "getArtifactsByStatus" => r.status = status}

\* C22: getAll, getByDay and getByStatus return exactly the stored
\* artifacts of the given userId that match the filter, each once, ordered
\* by createdAt descending; artifacts of other users never appear.
C22_ReadsSelectAndOrder ==
    resp.op = "read" =>
        LET l == resp.artifacts
            sel == Selected(resp.fn, resp.userId, resp.date, resp.status)
        IN  /\ Range(l) = {rowToArtifact(r) : r \in sel}
            /\ Len(l) = Cardinality(sel)
            /\ \A i \in 1..Len(l) : \A j \in 1..Len(l) :
                  i < j => (l[i].createdAt = l[j].createdAt
                               \/ DateAfter(l[i].createdAt, l[j].createdAt))
            /\ \A i \in 1..Len(l) : l[i].userId = resp.userId

\* getArtifactsByStatus returned the one ready artifact of a user while a
\* ready artifact of the other user is stored
C22_Witness ==
    /\ resp.op = "read" /\ resp.fn = "getArtifactsByStatus"
    /\ resp.status = "ready"
    /\ Len(resp.artifacts) = 1
    /\ \E r \in store : r.user_id # resp.userId /\ r.status = "ready"

\* the columns of the patch fields updateArtifactStatus copies
PatchColumns == {"summary", "full_audio_text", "title", "tags"}
PatchColumnsOf(af) ==
    (IF "summary" \in DOMAIN af THEN {"summary"} ELSE {})
    \cup (IF "fullAudioText" \in DOMAIN af THEN {"full_audio_text"} ELSE {})
    \cup (IF "title" \in DOMAIN af THEN {"title"} ELSE {})
    \cup (IF "tags" \in DOMAIN af THEN {"tags"} ELSE {})

\* the timestamp columns a call with the status may write into the row
StampColumns(row, status) ==
    (IF status = "playing" /\ ~Truthy(row.played_at) THEN {"played_at"} ELSE {})
    \cup (IF status = "completed" /\ ~Truthy(row.completed_at) THEN {"completed_at"} ELSE {})

\* C23: a successful updateStatus(id, status, patch), no call overlapping
\* it, changes only status, playedAt (only when the status is 'playing' and
\* playedAt was absent), completedAt (only when the status is 'completed'
\* and completedAt was absent) and those of summary, fullAudioText, title,
\* tags that the patch holds; every other field, any other key of the
\* patch and every other artifact stay as they were.
C23_UpdateFrame ==
    [][ /\ \A p \in Procs, id \in Ids, status \in ArtifactStatus, af \in Patches :
              (HasRow(store, id) /\ UpdateReadSeq(p, id, status, af))
                  => /\ store' = store
                     /\ DOMAIN calls'[p].updates \cap PatchColumns = PatchColumnsOf(af)
                     /\ DOMAIN calls'[p].updates
                            \subseteq {"status", "played_at", "completed_at"} \cup PatchColumns
        /\ \A p \in Procs :
              WriteDone(p) =>
                  LET id == calls[p].id
                      before == RowOf(store, id)
                      after == RowOf(store', id)
                      allowed == {"status"} \cup StampColumns(before, calls[p].status)
                                   \cup (DOMAIN calls[p].updates \cap PatchColumns)
                  IN  /\ HasRow(store', id)
                      /\ \A c \in DOMAIN before : c \notin allowed => after[c] = before[c]
                      /\ \A r \in store : r.id # id => r \in store'
                      /\ \A r \in store' : r.id # id => r \in store ]_vars

\* a PATCH to completed with a summary and a title returned while another
\* artifact is stored
C23_Witness ==
    /\ resp.op = "PATCH" /\ resp.code = 200 /\ resp.status = "completed"
    /\ resp.columns = {"status", "completed_at", "summary", "title"}
    /\ \E r \in store : r.id # resp.id

\* C24 as stated: every store operation, updateStatus included, issues
\* exactly one request to the external store per call.
C24_OneRoundTripPerCall ==
    resp.op = "store" => Len(resp.dbCalls) = 1

\* C24, amended: every store operation other than updateStatus issues
\* exactly one request per call, getDayGroups being one getAll;
\* updateStatus issues one read and, when the read returns the artifact,
\* one write after it.
C24_OneRoundTripButUpdate ==
    [][ \A c \in StoreCalls :
          StoreCall(c.fn, c.id, c.status, c.db) =>
              /\ resp'.op = "store" /\ resp'.fn = c.fn
              /\ IF c.fn = "updateArtifactStatus"
                 THEN resp'.dbCalls = IF c.db[1] /\ HasRow(store, c.id)
                                      THEN <<"select", "update">>
                                      ELSE <<"select">>
                 ELSE Len(resp'.dbCalls) = 1 ]_vars

\* updateArtifactStatus returned the artifact after a read and a write
C24_Witness ==
    /\ resp.op = "store" /\ resp.fn = "updateArtifactStatus"
    /\ resp.returned = "artifact"
    /\ resp.dbCalls = <<"select", "update">>

\* ---------------------------------------------------------------- concurrency claims
\* C25: when two updateStatus calls on the same existing id overlap with
\* different target statuses, after both have finished the stored status
\* is the one of the call that wrote last, and the columns only the earlier
\* call wrote (its stamp, its patch fields) keep the values it wrote.
C25_LastWriteWinsKeepsEarlierFields ==
    [][ \A p \in Procs :
          ( /\ started = MaxCalls
            /\ calls[p].pc = "write"
            /\ \A q \in Procs \ {p} : calls[q].pc = "idle"
            /\ resp.op = "PATCH" /\ resp.code = 200
            /\ resp.id = calls[p].id /\ resp.status # calls[p].status
            /\ WriteDone(p) )
              => /\ HasRow(store', calls[p].id)
                 /\ RowOf(store', calls[p].id).status = calls[p].status
                 /\ \A c \in resp.columns \ DOMAIN calls[p].updates :
                       RowOf(store', calls[p].id)[c] = RowOf(store, calls[p].id)[c] ]_vars

\* both calls have finished: the later one completed the artifact, the
\* earlier one's playedAt and summary are in the row
C25_Witness ==
    /\ started = MaxCalls /\ NoCallInFlight
    /\ resp.op = "PATCH" /\ resp.code = 200 /\ resp.status = "completed"
    /\ resp.columns = {"status", "completed_at"}
    /\ \E r \in store :
          /\ r.id = resp.id /\ r.status = "completed"
          /\ Truthy(r.played_at) /\ Truthy(r.summary)

\* C26: in every state reachable through creation, PATCH, DELETE and tool
\* calls, under any interleaving, an artifact with status 'playing' has a
\* non-null playedAt and an artifact with status 'completed' has a non-null
\* completedAt.
C26_StatusImpliesStamp ==
    \A r \in store :
        /\ rowToArtifact(r).status = "playing" => IsStr(rowToArtifact(r).playedAt)
        /\ rowToArtifact(r).status = "completed" => IsStr(rowToArtifact(r).completedAt)

\* an artifact is playing while another request on it, which read it
\* before it was played, is between its read and its write
C26_Witness ==
    \E r \in store :
        /\ r.status = "playing" /\ IsStr(r.played_at)
        /\ \E p \in Procs :
              /\ calls[p].pc = "write" /\ calls[p].id = r.id
              /\ calls[p].status = "completed"

\* the sum of stats.total over the groups
RECURSIVE SumOfTotals(_)
SumOfTotals(dayGroups) ==
    IF dayGroups = <<>> THEN 0
    ELSE Head(dayGroups).stats.total + SumOfTotals(Tail(dayGroups))

\* C27: in every response of GET /api/artifacts the artifacts list and the
\* dayGroups describe the same artifacts, also when other requests run
\* between the two reads of the handler: the totals of the groups sum to
\* the length of the list, and each listed artifact is in a group with the
\* same status.
C27_ListAndGroupsAgree ==
    resp.op = "GET" =>
        /\ SumOfTotals(resp.dayGroups) = Len(resp.artifacts)
        /\ \A a \in Range(resp.artifacts) :
              \E k \in 1..Len(resp.dayGroups) :
                  \E b \in Range(resp.dayGroups[k].artifacts) :
                      b.id = a.id /\ b.status = a.status

\* ---------------------------------------------------------------- grouping claim
\* the positions (group, index) of the groups at which artifact a is listed
PlacesOf(dayGroups, a) ==
    {pos \in {<<k, i>> : k \in 1..Len(dayGroups), i \in 1..MaxIds} :
        /\ pos[2] <= Len(dayGroups[pos[1]].artifacts)
        /\ dayGroups[pos[1]].artifacts[pos[2]] = a}

\* the position of artifact a in the list
IndexIn(list, a) == CHOOSE i \in 1..Len(list) : list[i] = a

\* C28: the groups of getDayGroups partition the getAll result: every
\* artifact of the user is in exactly one group, the date of that group is
\* the artifact's dayBucket, no group is empty, and the artifacts of a
\* group are in the createdAt-descending order getAll gave them.
C28_GroupsPartitionList ==
    resp.op = "getDayGroups" =>
        LET list == resp.artifacts
            dayGroups == resp.body
        IN  /\ \A a \in Range(list) : Cardinality(PlacesOf(dayGroups, a)) = 1
            /\ \A k \in 1..Len(dayGroups) :
                  LET arts == dayGroups[k].artifacts
                  IN  /\ arts # <<>>
                      /\ \A i \in 1..Len(arts) :
                            /\ arts[i] \in Range(list)
                            /\ arts[i].dayBucket = dayGroups[k].date
                      /\ \A i \in 1..Len(arts) : \A j \in 1..Len(arts) :
                            i < j => IndexIn(list, arts[i]) < IndexIn(list, arts[j])

\* getDayGroups returned one group of two artifacts created at different
\* times of the same day
C28_Witness ==
    /\ resp.op = "getDayGroups"
    /\ Len(resp.body) = 1
    /\ Len(resp.body[1].artifacts) = 2
    /\ resp.body[1].artifacts[1].createdAt # resp.body[1].artifacts[2].createdAt

\* ---------------------------------------------------------------- drive page claims
\* C29: after any sequence of Next, Previous, play/pause and audio-ended
\* events on a non-empty fetched queue, currentIndex is within
\* 0..episodes.length-1, and every Next and every audio-ended event sends
\* PATCH status 'completed' for the episode current at that moment, also
\* when it is the last one and the index cannot advance.
C29_IndexInRangeAndCompletedSent ==
    [][ /\ player'.episodes # <<>> =>
              player'.currentIndex \in 0..(Len(player'.episodes) - 1)
        /\ (HandleNext \/ HandleEnded) =>
              /\ resp'.op = "handleNext" /\ resp'.status = "completed"
              /\ resp'.id = CurrentEpisode.id
              /\ HasRow(store, CurrentEpisode.id) =>
                    /\ resp'.code = 200
                    /\ RowOf(store', CurrentEpisode.id).status = "completed" ]_vars

\* the audio of the last of two episodes ended: its PATCH to completed was
\* served and the index stayed on it
C29_Witness ==
    /\ Len(player.episodes) = 2
    /\ player.currentIndex = 1
    /\ player.awaiting = <<>>
    /\ resp.op = "handleNext" /\ resp.last /\ resp.code = 200
    /\ resp.id = player.episodes[2].id
    /\ \E r \in store : r.id = resp.id /\ r.status = "completed"

\* C30: the drive page never rolls a status back: when the PATCH to
\* 'playing' of playEpisode succeeds and the TTS request fails, the
\* artifact stays in status 'playing'; and the queue is built only from
\* artifacts in status 'pending' or 'ready', so every fetch of the queue
\* leaves out an artifact that is still 'playing'.
C30_NoRollbackAndQueuePlayable ==
    [][ /\ (HandlePlayPause(FALSE) /\ ~player.isPlaying /\ ~player.src
                /\ HasRow(store, CurrentEpisode.id))
              => /\ resp'.op = "playEpisode" /\ resp'.patch = 200 /\ resp'.tts = 500
                 /\ RowOf(store', CurrentEpisode.id).status = "playing"
                 /\ player' = player
        /\ FetchEpisodes
              => /\ \A r \in store :
                       r.status \notin {"pending", "ready"}
                           => \A i \in 1..Len(player'.episodes) :
                                  player'.episodes[i].id # r.id
                 /\ \A r \in store :
                       (r.user_id = DEMO_USER_ID /\ r.status \in {"pending", "ready"})
                           => \E i \in 1..Len(player'.episodes) :
                                  player'.episodes[i].id = r.id ]_vars

\* a playback failed at the TTS request after its PATCH was served: the
\* artifact is in status playing, nothing plays, and the queue fetched
\* earlier still lists it
C30_Witness ==
    /\ resp.op = "playEpisode" /\ resp.patch = 200 /\ resp.tts = 500
    /\ ~player.isPlaying /\ ~player.src
    /\ CurrentEpisode.id = resp.id
    /\ \E r \in store : r.id = resp.id /\ r.status = "playing" /\ IsStr(r.played_at)

====
